---- MODULE Spec2Model ----
(***************************************************************************)
(* Author Enrichment Service (main.py): candidate scoring, the single     *)
(* author enrichment, the tenacity retry around the OpenLibrary calls,    *)
(* the upsert into the authors index and the composite-aggregation        *)
(* backfill loop.                                                          *)
(*                                                                         *)
(* Python strings are sequences of one-character strings.  The Python     *)
(* value None is the one-element sequence None (for strings) and NoneInt  *)
(* (for integers); a dict that has no entry for a key reads as None,      *)
(* which is what dict.get returns.                                         *)
(***************************************************************************)
EXTENDS Integers, Sequences, FiniteSets, TLC

\* ---------------------------------------------------------------- bounds
MaxAuthors == 3      \* distinct (name, birth) pairs in the works aggregation
MaxLimit   == 3      \* largest limit a batch request is made with

\* ------------------------------------------------------ program constants
StopAfterAttempt == 3        \* stop_after_attempt(3)
WaitMultiplier   == 500      \* wait_exponential(multiplier=0.5), in milliseconds
WaitMax          == 4000     \* wait_exponential(max=4), in milliseconds
MaxPageSize      == 1000     \* min(1000, limit - processed)
ExactBonus       == 1000     \* exact = 1000 if ... else 0
BirthBonusBase   == 100      \* birth_bonus = 100 - abs(by - target_birth)
SubjectsShown    == 8        \* subjects[:8]

\* ------------------------------------------------------------ Python values
None     == <<"None">>
NoneInt  == -1
NoneDict == [none |-> TRUE]

Truthy(s)    == s # None /\ s # <<>>          \* truth value of an Optional[str] or list
TruthyInt(n) == n # NoneInt /\ n # 0          \* truth value of an Optional[int]
OrStr(s, d)  == IF Truthy(s) THEN s ELSE d    \* s or d
OrInt(n, d)  == IF TruthyInt(n) THEN n ELSE d \* n or d

Min(a, b) == IF a < b THEN a ELSE b
Abs(a)    == IF a < 0 THEN -a ELSE a

Digits     == {"0", "1", "2", "3", "4", "5", "6", "7", "8", "9"}
DigitVal(c) == CASE c = "0" -> 0 [] c = "1" -> 1 [] c = "2" -> 2 [] c = "3" -> 3
                 [] c = "4" -> 4 [] c = "5" -> 5 [] c = "6" -> 6 [] c = "7" -> 7
                 [] c = "8" -> 8 [] c = "9" -> 9

Whitespace == {" "}
LowerChar(c) == CASE c = "A" -> "a" [] c = "B" -> "b" [] c = "N" -> "n" [] c = "O" -> "o"
                  [] OTHER -> c

\* str.lower()
Lower(s) == [i \in 1..Len(s) |-> LowerChar(s[i])]

\* str.strip()
RECURSIVE LStrip(_)
LStrip(s) == IF s # <<>> /\ Head(s) \in Whitespace THEN LStrip(Tail(s)) ELSE s
RECURSIVE RStrip(_)
RStrip(s) == IF s # <<>> /\ s[Len(s)] \in Whitespace THEN RStrip(SubSeq(s, 1, Len(s) - 1)) ELSE s
Strip(s) == RStrip(LStrip(s))

\* str.split("/")[-1]
RECURSIVE LastSegment(_)
LastSegment(s) ==
    IF \E i \in 1..Len(s) : s[i] = "/"
    THEN LastSegment(SubSeq(s, (CHOOSE i \in 1..Len(s) : s[i] = "/") + 1, Len(s)))
    ELSE s

\* ------------------------------------------------------------------ Utils
\* re.search(r"\d{4}", s): the leftmost position where four digits start
FourDigitsAt(s, i) == i + 3 <= Len(s) /\ \A j \in i..(i + 3) : s[j] \in Digits
HasYear(s)  == \E i \in 1..Len(s) : FourDigitsAt(s, i)
YearPos(s)  == CHOOSE i \in 1..Len(s) : FourDigitsAt(s, i) /\ \A j \in 1..(i - 1) : ~FourDigitsAt(s, j)

to_year(s) ==
    IF ~Truthy(s) THEN NoneInt
    ELSE IF HasYear(s)
         THEN LET i == YearPos(s)
              IN  1000 * DigitVal(s[i]) + 100 * DigitVal(s[i + 1]) + 10 * DigitVal(s[i + 2]) + DigitVal(s[i + 3])
         ELSE NoneInt

\* the names are compared as they are, without strip() and lower()
score_candidate_raw(d, target_name, target_birth) ==
    LET exact == IF OrStr(d.name, <<>>) = OrStr(target_name, <<>>) THEN ExactBonus ELSE 0
        wc    == OrInt(d.work_count, 0)
        by    == to_year(d.birth_date)
        birth_bonus == IF TruthyInt(target_birth) /\ TruthyInt(by)
                       THEN BirthBonusBase - Abs(by - target_birth)
                       ELSE 0
    IN  exact + birth_bonus + wc

score_candidate(d, target_name, target_birth) ==
    LET lname == Lower(Strip(OrStr(target_name, <<>>)))
        exact == IF Lower(Strip(OrStr(d.name, <<>>))) = lname THEN ExactBonus ELSE 0
        wc    == OrInt(d.work_count, 0)
        by    == to_year(d.birth_date)
        birth_bonus == IF TruthyInt(target_birth) /\ TruthyInt(by)
                       THEN BirthBonusBase - Abs(by - target_birth)
                       ELSE 0
    IN  exact + birth_bonus + wc

\* sorted(docs, key=..., reverse=True): Python's sort is stable, and with
\* reverse=True elements of equal key keep their original order.  Each element
\* is inserted behind every element whose key is at least its own.
\* a sort that is not stable: an element passes the elements of equal key
RECURSIVE InsertDescUnstable(_, _, _, _)
InsertDescUnstable(out, d, target_name, target_birth) ==
    IF out = <<>> THEN <<d>>
    ELSE IF score_candidate(Head(out), target_name, target_birth) > score_candidate(d, target_name, target_birth)
         THEN <<Head(out)>> \o InsertDescUnstable(Tail(out), d, target_name, target_birth)
         ELSE <<d>> \o out

RECURSIVE InsertDesc(_, _, _, _)
InsertDesc(out, d, target_name, target_birth) ==
    IF out = <<>> THEN <<d>>
    ELSE IF score_candidate(Head(out), target_name, target_birth) >= score_candidate(d, target_name, target_birth)
         THEN <<Head(out)>> \o InsertDesc(Tail(out), d, target_name, target_birth)
         ELSE <<d>> \o out

RECURSIVE SortedDesc(_, _, _)
SortedDesc(docs, target_name, target_birth) ==
    IF docs = <<>> THEN <<>>
    ELSE InsertDesc(SortedDesc(SubSeq(docs, 1, Len(docs) - 1), target_name, target_birth),
                    docs[Len(docs)], target_name, target_birth)

pick_best_author(docs, target_name, target_birth) ==
    IF docs = <<>> THEN NoneDict
    ELSE SortedDesc(docs, target_name, target_birth)[1]

\* A JSON value of the detail record: t is "null" (key absent or null), "str"
\* (the string s), "num" (a non-zero number) or "obj" (a dict); a dict is
\* empty (vt = "empty"), has no "value" entry (vt = "absent"), or has the
\* entry "value", a string s (vt = "str") or a number (vt = "num").
JNull     == [t |-> "null", s |-> <<>>, vt |-> "absent"]
JStr(s)   == [t |-> "str", s |-> s, vt |-> "absent"]
JNum      == [t |-> "num", s |-> <<>>, vt |-> "absent"]
JObj(vt, s) == [t |-> "obj", s |-> s, vt |-> vt]

TruthyJ(v) == CASE v.t = "null" -> FALSE
                [] v.t = "str"  -> v.s # <<>>
                [] v.t = "num"  -> TRUE
                [] v.t = "obj"  -> v.vt # "empty"

\* description is looked at before bio
extract_bio_description_first(detail) ==
    LET v == IF TruthyJ(detail.description) THEN detail.description ELSE detail.bio
    IN  IF ~TruthyJ(v) THEN None
        ELSE IF v.t = "str" THEN v.s
        ELSE IF v.t = "obj" /\ v.vt = "str" THEN v.s
        ELSE None

extract_bio(detail) ==
    LET v == IF TruthyJ(detail.bio) THEN detail.bio ELSE detail.description
    IN  IF ~TruthyJ(v) THEN None
        ELSE IF v.t = "str" THEN v.s
        ELSE IF v.t = "obj" /\ v.vt = "str" THEN v.s
        ELSE None

\* es.index(index=ES_AUTHORS_INDEX, id=olid, document=payload, ...): the index
\* holds one document per _id, indexing under an existing _id replaces it
\* the document is indexed under the author's name
index_author_doc_by_name(index, olid_, payload) ==
    {r \in index : r.id # payload.name} \cup {[id |-> payload.name, doc |-> payload]}

index_author_doc(index, olid_, payload) ==
    {r \in index : r.id # olid_} \cup {[id |-> olid_, doc |-> payload]}

\* ------------------------------------------------------------ tenacity retry
\* retry=... is not given: tenacity retries on every exception
ShouldRetry(outcome) == outcome # "ok"

\* the wrapper gives up one attempt early
ShouldStopEarly(attempt_number) == attempt_number >= StopAfterAttempt - 1

\* stop=stop_after_attempt(3)
ShouldStop(attempt_number) == attempt_number >= StopAfterAttempt

RECURSIVE Pow2(_)
Pow2(n) == IF n = 0 THEN 1 ELSE 2 * Pow2(n - 1)

\* wait=wait_exponential(multiplier=0.5, max=4): the wait after the given attempt
WaitExponential(attempt_number) == Min(WaitMultiplier * Pow2(attempt_number - 1), WaitMax)

\* what the retrying wrapper does after one attempt of the wrapped call
RetryStep(outcome, attempt_number) ==
    IF outcome = "ok" THEN "return"
    ELSE IF ~ShouldRetry(outcome) THEN "reraise"
    ELSE IF ShouldStop(attempt_number) THEN "RetryError"
    ELSE "retry"

\* ------------------------------------------------------------ enrich_one
AuthorSuffix == <<".", " ", "A", "u", "t", "h", "o", "r", ".">>

Take(s, n) == SubSeq(s, 1, Min(n, Len(s)))

\* olid = (best.get("key") or "").split("/")[-1]
OlidOf(best_) == LastSegment(OrStr(best_.key, <<>>))

\* bio_text is what extract_bio gives, without the fallback of line 93
BuildDocNoFallback(best_, olid_, detail_, name_, birth_year_) ==
    [author_id    |-> olid_,
     name         |-> OrStr(best_.name, name_),
     birth        |-> OrInt(to_year(best_.birth_date), birth_year_),
     variants     |-> OrStr(best_.alternate_names, <<>>),
     top_subjects |-> OrStr(best_.top_subjects, <<>>),
     bio_text     |-> extract_bio(detail_),
     source       |-> [openlibrary_id   |-> olid_,
                       match_confidence |-> OrInt(best_.work_count, 0)]]

BuildDoc(best_, olid_, detail_, name_, birth_year_) ==
    [author_id    |-> olid_,
     name         |-> OrStr(best_.name, name_),
     birth        |-> OrInt(to_year(best_.birth_date), birth_year_),
     variants     |-> OrStr(best_.alternate_names, <<>>),
     top_subjects |-> OrStr(best_.top_subjects, <<>>),
     bio_text     |-> OrStr(extract_bio(detail_), name_ \o AuthorSuffix),
     source       |-> [openlibrary_id   |-> olid_,
                       match_confidence |-> OrInt(best_.work_count, 0)]]

NoMatchResult(name_) == [status |-> "no_match", olid |-> None, name |-> name_, subjects |-> <<>>]
OkResult(olid_, doc_) ==
    [status |-> "ok", olid |-> olid_, name |-> doc_.name, subjects |-> Take(doc_.top_subjects, SubjectsShown)]
NoResult == [status |-> "none", olid |-> None, name |-> None, subjects |-> <<>>]

\* ------------------------------------------------------------ enrich_batch
\* the page size forgets what has been processed
PageSizeWhole(limit_, processed_) == Min(MaxPageSize, limit_)

\* "size": min(1000, limit - processed)
PageSize(limit_, processed_) == Min(MaxPageSize, limit_ - processed_)

\* one component is enough for a start cursor
StartKeyEither(san, sab) ==
    IF san # None \/ sab # None THEN [name |-> san, birth |-> sab] ELSE NoneDict

\* after_key = {...} if (start_after_name is not None and start_after_birth is not None) else None
StartKey(san, sab) ==
    IF san # None /\ sab # None THEN [name |-> san, birth |-> sab] ELSE NoneDict

\* ------------------------------------------------------------ the environment
\* The distinct (creator_name, creator_birth) keys of the works index, in the
\* ascending order of the composite aggregation; the aggregation of a run is
\* the first aggSize of them.
AllKeys ==
    << [name |-> <<"A", "n">>, birth |-> <<"1", "9", "2", "3">>],
       [name |-> <<"A", "n">>, birth |-> <<"c", " ", "1", "9", "5", "0">>],
       [name |-> <<"B", "o">>, birth |-> <<"1", "9", "5", "0">>],
       [name |-> <<"B", "o">>, birth |-> <<"u", "n", "k">>],
       [name |-> <<"B", "o", "b">>, birth |-> <<"1", "9", "2", "3">>] >>

\* Records of an OpenLibrary author search
CandAn  == [name |-> <<"a", "n", " ">>, key |-> <<"/", "a", "/", "1">>,
            birth_date |-> <<"1", "9", "2", "3">>, work_count |-> 5,
            top_subjects |-> << <<"s">> >>, alternate_names |-> None]
CandBig == [name |-> <<"A", "n", "n">>, key |-> <<"/", "a", "/", "2">>,
            birth_date |-> None, work_count |-> 900,
            top_subjects |-> None, alternate_names |-> << <<"A">> >>]

\* Answers of the author search and of the author fetch.  The service
\* specification draws them from DocLists and Details, the specification of
\* POST /enrich/author alone from AllDocLists and AllDetails.
DocLists    == { <<>>, <<CandAn>> }
AllDocLists == { <<>>, <<CandAn>>, <<CandBig>>, <<CandBig, CandAn>> }

\* values of detail["bio"] and detail["description"]
BioValues ==
    { JNull, JStr(<<>>), JStr(<<"h", "i">>), JStr(<<"y", "o">>), JNum,
      JObj("empty", <<>>), JObj("absent", <<>>), JObj("num", <<>>),
      JObj("str", <<>>), JObj("str", <<"h", "i">>) }

Details    == { [bio |-> JStr(<<"h", "i">>), description |-> JNull] }
AllDetails == {d \in [bio : BioValues, description : BioValues] :
                    d.bio = JNull \/ d.description = JNull \/ d.bio = JStr(<<>>)}

Olids == {OlidOf(c) : c \in {CandAn, CandBig}}

\* the inputs of POST /enrich/author
QueryNames  == {AllKeys[1].name, AllKeys[3].name}
QueryBirths == {NoneInt, 1923}

VARIABLES
    aggSize,            \* works index: number of distinct (name, birth) keys
    storeMode,          \* works index: "sized" returns at most the requested buckets, "over" any number,
                        \* "endless" at most the requested buckets, never an empty page, always an after_key
    authors,            \* the authors index: set of [id, doc]
    bpc,                \* enrich_batch: "idle", "search", "for", "await", "done", "raised"
    limit, start_after_name, start_after_birth,
    processed, after_key,
    body,               \* "size" and "after" of the composite source of the latest es.search
    buckets, bidx,      \* resp[...]["buckets"] and the position of the for loop in it
    resp_after,         \* resp[...].get("after_key")
    epc,                \* enrich_one: "idle", "search", "fetch", "index", "sleep", "returned", "raised"
    caller,             \* "none", "single" (POST /enrich/author), "batch"
    name, birth_year,
    attempt,            \* attempt number of the retried call in progress
    docs, best, olid, doc, result,
    extracted,          \* extract_bio(detail) of line 93
    error,              \* the exception enrich_one ended with: "none", "RetryError", "reraise", "index"
    \* ---- history
    nsearch, nfetch, nindex,   \* HTTP attempts of search, of fetch, and upserts made by this enrich_one
    lastOutcome,        \* outcome of the latest OpenLibrary attempt: "none", "ok", "transient", "fatal"
    waited,             \* the latest backoff slept by the retrying wrapper (ms)
    unpaced,            \* an OpenLibrary call completed and asyncio.sleep(OL_DELAY) has not run since
    first_after,        \* after_key as computed at the start of this batch
    seen,               \* keys passed to enrich_one by this batch
    raisedItems,        \* number of enrich_one calls of this batch that raised
    inChain,            \* this batch starts a chain of batches, or goes on with one, over a "sized" works index
    chainLog,           \* keys passed to enrich_one by the batches of the chain so far
    chain,              \* 1: batch started without cursor; 2: batch resumed from the result of a chain-1 batch
    lastBatch,          \* the latest BatchResult returned, until the next batch request
    lastUpsert,         \* per id, the payload of the latest index_author_doc call
    upsertCount,        \* per id, the number of index_author_doc calls: 0, 1, 2 (two or more)
    \* ---- the scorer on its own
    pin,                \* arguments of pick_best_author
    pout,               \* its result, once computed
    \* ---- to_year and extract_bio on their own
    yin, yout,          \* argument and result of to_year
    din, dout           \* argument and result of extract_bio

batchVars  == <<bpc, limit, start_after_name, start_after_birth, processed, after_key, body, buckets,
                bidx, resp_after, first_after, seen, raisedItems, chain, inChain, chainLog>>
enrichVars == <<epc, caller, name, birth_year, attempt, docs, best, olid, doc, result, extracted, error,
                nsearch, nfetch, nindex, lastOutcome, waited>>
storeVars  == <<authors, lastUpsert, upsertCount>>
envVars    == <<aggSize, storeMode, pin, pout, yin, yout, din, dout>>
vars == <<envVars, storeVars, batchVars, enrichVars, unpaced, lastBatch>>

NoPick   == [docs |-> <<>>, name |-> None, birth |-> NoneInt]
NoPicked == [done |-> FALSE, best |-> NoneDict]

NoYearArg == [chosen |-> FALSE, s |-> None]
NoYear    == [done |-> FALSE, year |-> NoneInt]
NoBioArg  == [chosen |-> FALSE, detail |-> [bio |-> JNull, description |-> JNull]]
NoBio     == [done |-> FALSE, bio |-> None]

NoBody == [size |-> 0, after |-> NoneDict]

NoBatch == [valid |-> FALSE, limit |-> 0, processed |-> 0, next_after_key |-> NoneDict, chain |-> 0,
            inChain |-> FALSE, chainLog |-> <<>>]

Init ==
    /\ aggSize \in 0..MaxAuthors
    /\ storeMode \in {"sized", "over", "endless"}
    /\ storeMode = "endless" => aggSize = MaxAuthors
    /\ authors = {}
    /\ bpc = "idle" /\ limit = 0 /\ start_after_name = None /\ start_after_birth = None
    /\ processed = 0 /\ after_key = NoneDict /\ body = NoBody /\ buckets = <<>> /\ bidx = 0
    /\ resp_after = NoneDict /\ first_after = NoneDict /\ seen = {} /\ raisedItems = 0 /\ chain = 0
    /\ inChain = FALSE /\ chainLog = <<>>
    /\ epc = "idle" /\ caller = "none" /\ name = None /\ birth_year = NoneInt
    /\ attempt = 0 /\ docs = <<>> /\ best = NoneDict /\ olid = None /\ doc = NoneDict
    /\ result = NoResult /\ extracted = None /\ error = "none"
    /\ nsearch = 0 /\ nfetch = 0 /\ nindex = 0 /\ lastOutcome = "none" /\ waited = 0
    /\ unpaced = FALSE
    /\ lastBatch = NoBatch
    /\ lastUpsert = [i \in Olids |-> NoneDict]
    /\ upsertCount = [i \in Olids |-> 0]
    /\ pin = NoPick /\ pout = NoPicked
    /\ yin = NoYearArg /\ yout = NoYear
    /\ din = NoBioArg /\ dout = NoBio

\* ------------------------------------------------------------ enrich_one
\* the call enrich_one(name, birth_year): up to the first await
CallEnrichOne(name_, birth_year_, caller_) ==
    /\ epc' = "search" /\ caller' = caller_
    /\ name' = name_ /\ birth_year' = birth_year_
    /\ attempt' = 1
    /\ docs' = <<>> /\ best' = NoneDict /\ olid' = None /\ doc' = NoneDict
    /\ result' = NoResult /\ extracted' = None /\ error' = "none"
    /\ nsearch' = 0 /\ nfetch' = 0 /\ nindex' = 0 /\ lastOutcome' = "none" /\ waited' = 0

\* the frame of enrich_one is gone once its caller has the result or the exception
EndEnrichOne ==
    /\ epc' = "idle" /\ caller' = "none" /\ name' = None /\ birth_year' = NoneInt
    /\ attempt' = 0 /\ docs' = <<>> /\ best' = NoneDict /\ olid' = None /\ doc' = NoneDict
    /\ result' = NoResult /\ extracted' = None /\ error' = "none"
    /\ nsearch' = 0 /\ nfetch' = 0 /\ nindex' = 0 /\ lastOutcome' = "none" /\ waited' = 0

\* one attempt of ol_search_author fails (a network error or 5xx status is
\* "transient"; another status or a body that is not JSON is "fatal")
OlSearchFail(outcome) ==
    /\ epc = "search"
    /\ outcome \in {"transient", "fatal"}
    /\ nsearch' = nsearch + 1 /\ lastOutcome' = outcome /\ unpaced' = TRUE
    /\ LET step == RetryStep(outcome, attempt)
       IN  IF step = "retry"
           THEN /\ attempt' = attempt + 1 /\ waited' = WaitExponential(attempt)
                /\ UNCHANGED <<epc, error>>
           ELSE /\ epc' = "raised" /\ error' = step
                /\ UNCHANGED <<attempt, waited>>
    /\ UNCHANGED <<caller, name, birth_year, extracted, docs, best, olid, doc, result, nfetch, nindex>>
    /\ UNCHANGED <<envVars, storeVars, batchVars, lastBatch>>

\* enrich_one without the test of line 88: best.get fails on None
OlSearchOkNoTest(ds) ==
    /\ epc = "search"
    /\ nsearch' = nsearch + 1 /\ lastOutcome' = "ok" /\ unpaced' = TRUE
    /\ docs' = ds
    /\ LET b == pick_best_author(ds, name, birth_year)
       IN  /\ best' = b
           /\ IF b = NoneDict
              THEN /\ epc' = "raised" /\ error' = "reraise"
                   /\ UNCHANGED <<olid, attempt>>
              ELSE /\ olid' = OlidOf(b) /\ epc' = "fetch" /\ attempt' = 1
                   /\ UNCHANGED error
    /\ UNCHANGED <<caller, name, birth_year, extracted, doc, result, nfetch, nindex, waited>>
    /\ UNCHANGED <<envVars, storeVars, batchVars, lastBatch>>

\* one attempt of ol_search_author succeeds: lines 86 to 91 run (the candidates
\* are non-empty dicts, so "not best" is "best is None")
OlSearchOk(ds) ==
    /\ epc = "search"
    /\ nsearch' = nsearch + 1 /\ lastOutcome' = "ok" /\ unpaced' = TRUE
    /\ docs' = ds
    /\ LET b == pick_best_author(ds, name, birth_year)
       IN  /\ best' = b
           /\ IF b = NoneDict
              THEN /\ result' = NoMatchResult(name) /\ epc' = "returned"
                   /\ UNCHANGED <<olid, attempt>>
              ELSE /\ olid' = OlidOf(b) /\ epc' = "fetch" /\ attempt' = 1
                   /\ UNCHANGED result
    /\ UNCHANGED <<caller, name, birth_year, extracted, doc, error, nfetch, nindex, waited>>
    /\ UNCHANGED <<envVars, storeVars, batchVars, lastBatch>>

OlGetFail(outcome) ==
    /\ epc = "fetch"
    /\ outcome \in {"transient", "fatal"}
    /\ nfetch' = nfetch + 1 /\ lastOutcome' = outcome /\ unpaced' = TRUE
    /\ LET step == RetryStep(outcome, attempt)
       IN  IF step = "retry"
           THEN /\ attempt' = attempt + 1 /\ waited' = WaitExponential(attempt)
                /\ UNCHANGED <<epc, error>>
           ELSE /\ epc' = "raised" /\ error' = step
                /\ UNCHANGED <<attempt, waited>>
    /\ UNCHANGED <<caller, name, birth_year, extracted, docs, best, olid, doc, result, nsearch, nindex>>
    /\ UNCHANGED <<envVars, storeVars, batchVars, lastBatch>>

\* one attempt of ol_get_author succeeds: lines 93 to 110 run
OlGetOk(detail) ==
    /\ epc = "fetch"
    /\ nfetch' = nfetch + 1 /\ lastOutcome' = "ok" /\ unpaced' = TRUE
    /\ extracted' = extract_bio(detail)
    /\ doc' = BuildDoc(best, olid, detail, name, birth_year)
    /\ epc' = "index"
    /\ UNCHANGED <<caller, name, birth_year, attempt, docs, best, olid, result, error, nsearch,
                   nindex, waited>>
    /\ UNCHANGED <<envVars, storeVars, batchVars, lastBatch>>

\* index_author_doc(olid, doc) returns
IndexOk ==
    /\ epc = "index"
    /\ authors' = index_author_doc(authors, olid, doc)
    /\ lastUpsert' = [lastUpsert EXCEPT ![olid] = doc]
    /\ upsertCount' = [upsertCount EXCEPT ![olid] = Min(2, @ + 1)]
    /\ nindex' = nindex + 1
    /\ epc' = "sleep"
    /\ UNCHANGED <<caller, name, birth_year, extracted, attempt, docs, best, olid, doc, result, error,
                   nsearch, nfetch, lastOutcome, waited>>
    /\ UNCHANGED <<envVars, batchVars, unpaced, lastBatch>>

\* the exception of es.index is swallowed and enrich_one goes on
IndexFailSwallowed ==
    /\ epc = "index"
    /\ nindex' = nindex + 1
    /\ epc' = "sleep"
    /\ UNCHANGED <<caller, name, birth_year, extracted, attempt, docs, best, olid, doc, result, error,
                   nsearch, nfetch, lastOutcome, waited>>
    /\ UNCHANGED <<envVars, storeVars, batchVars, unpaced, lastBatch>>

\* es.index raises (the authors index is unreachable or rejects the document)
IndexFail ==
    /\ epc = "index"
    /\ nindex' = nindex + 1
    /\ epc' = "raised" /\ error' = "index"
    /\ UNCHANGED <<caller, name, birth_year, extracted, attempt, docs, best, olid, doc, result,
                   nsearch, nfetch, lastOutcome, waited>>
    /\ UNCHANGED <<envVars, storeVars, batchVars, unpaced, lastBatch>>

\* await asyncio.sleep(OL_DELAY); return {"status": "ok", ...}
PoliteSleep ==
    /\ epc = "sleep"
    /\ unpaced' = FALSE
    /\ result' = OkResult(olid, doc)
    /\ epc' = "returned"
    /\ UNCHANGED <<caller, name, birth_year, extracted, attempt, docs, best, olid, doc, error,
                   nsearch, nfetch, nindex, lastOutcome, waited>>
    /\ UNCHANGED <<envVars, storeVars, batchVars, lastBatch>>

\* ------------------------------------------------------------ POST /enrich/author
EnrichAuthor(name_, birth_) ==
    /\ bpc = "idle" /\ epc = "idle"
    /\ CallEnrichOne(name_, birth_, "single")
    /\ unpaced' = FALSE
    /\ UNCHANGED <<envVars, storeVars, batchVars, lastBatch>>

\* the response (or the error) of POST /enrich/author is delivered
EnrichAuthorDone ==
    /\ caller = "single" /\ epc \in {"returned", "raised"}
    /\ EndEnrichOne
    /\ UNCHANGED <<envVars, storeVars, batchVars, unpaced, lastBatch>>

\* ------------------------------------------------------------ POST /enrich/batch
Agg == SubSeq(AllKeys, 1, aggSize)

\* position of a composite key in the aggregation order (0: before every key)
Pos(key) == IF key = NoneDict THEN 0 ELSE CHOOSE i \in 1..Len(AllKeys) : AllKeys[i] = key

\* the cursors a caller passes: none, the key of a bucket, or one component only
Cursors ==
    {<<None, None>>, <<AllKeys[1].name, None>>, <<None, AllKeys[1].birth>>}
        \cup {<<AllKeys[i].name, AllKeys[i].birth>> : i \in 1..aggSize}

\* the start cursor is not used: every batch starts from the beginning
EnrichBatchFromStart(limit_, san, sab) ==
    /\ bpc = "idle" /\ epc = "idle"
    /\ limit' = limit_ /\ start_after_name' = san /\ start_after_birth' = sab
    /\ processed' = 0
    /\ after_key' = NoneDict
    /\ first_after' = StartKey(san, sab)
    /\ body' = NoBody /\ buckets' = <<>> /\ bidx' = 0 /\ resp_after' = NoneDict
    /\ seen' = {} /\ raisedItems' = 0
    /\ chain' = IF san = None /\ sab = None THEN 1
                ELSE IF /\ lastBatch.valid /\ lastBatch.chain = 1 /\ lastBatch.limit = limit_
                        /\ lastBatch.next_after_key # NoneDict
                        /\ lastBatch.next_after_key = StartKey(san, sab)
                     THEN 2 ELSE 0
    /\ LET goesOn == /\ lastBatch.valid /\ lastBatch.inChain
                      /\ lastBatch.next_after_key # NoneDict
                      /\ lastBatch.next_after_key = StartKey(san, sab)
       IN  /\ inChain' = (storeMode = "sized" /\ (StartKey(san, sab) = NoneDict \/ goesOn))
           /\ chainLog' = IF storeMode = "sized" /\ goesOn THEN lastBatch.chainLog ELSE <<>>
    /\ bpc' = "search"
    /\ unpaced' = FALSE
    /\ lastBatch' = NoBatch
    /\ UNCHANGED <<envVars, storeVars, enrichVars>>

\* lines 165, 166 and the first test of the while condition (limit >= 1)
EnrichBatch(limit_, san, sab) ==
    /\ bpc = "idle" /\ epc = "idle"
    /\ limit' = limit_ /\ start_after_name' = san /\ start_after_birth' = sab
    /\ processed' = 0
    /\ after_key' = StartKey(san, sab)
    /\ first_after' = StartKey(san, sab)
    /\ body' = NoBody /\ buckets' = <<>> /\ bidx' = 0 /\ resp_after' = NoneDict
    /\ seen' = {} /\ raisedItems' = 0
    /\ chain' = IF san = None /\ sab = None THEN 1
                ELSE IF /\ lastBatch.valid /\ lastBatch.chain = 1 /\ lastBatch.limit = limit_
                        /\ lastBatch.next_after_key # NoneDict
                        /\ lastBatch.next_after_key = StartKey(san, sab)
                     THEN 2 ELSE 0
    /\ LET goesOn == /\ lastBatch.valid /\ lastBatch.inChain
                      /\ lastBatch.next_after_key # NoneDict
                      /\ lastBatch.next_after_key = StartKey(san, sab)
       IN  /\ inChain' = (storeMode = "sized" /\ (StartKey(san, sab) = NoneDict \/ goesOn))
           /\ chainLog' = IF storeMode = "sized" /\ goesOn THEN lastBatch.chainLog ELSE <<>>
    /\ bpc' = "search"
    /\ unpaced' = FALSE
    /\ lastBatch' = NoBatch
    /\ UNCHANGED <<envVars, storeVars, enrichVars>>

\* the numbers of buckets the works index may answer a request with
PageCounts(size, remaining) ==
    IF remaining = 0 THEN {0}
    ELSE IF storeMode = "sized" THEN 1..Min(size, remaining)
    ELSE 1..remaining

\* the k buckets behind position pos of a works index that never runs out of
\* keys (the keys come round again)
EndlessPage(pos, k) == [i \in 1..k |-> AllKeys[((pos + i - 1) % Len(AllKeys)) + 1]]

\* es.search(index=ES_WORKS_INDEX, body=body) raises
WorksSearchFail ==
    /\ bpc = "search"
    /\ body' = [size |-> PageSize(limit, processed), after |-> after_key]
    /\ bpc' = "raised"
    /\ UNCHANGED <<limit, start_after_name, start_after_birth, processed, after_key, buckets,
                   bidx, resp_after, first_after, seen, raisedItems, chain, inChain, chainLog>>
    /\ UNCHANGED <<envVars, storeVars, enrichVars, unpaced, lastBatch>>

\* es.search returns the buckets behind after_key; lines 187 to 190
WorksSearchOk ==
    /\ bpc = "search"
    /\ LET pos  == Pos(after_key)
           size == PageSize(limit, processed)
       IN  /\ body' = [size |-> size, after |-> after_key]
           /\ IF storeMode = "endless"
              THEN \E k \in 1..size :
                     /\ buckets' = EndlessPage(pos, k)
                     /\ resp_after' = EndlessPage(pos, k)[k]
                     /\ bpc' = "for" /\ bidx' = 1
                     /\ UNCHANGED after_key
              ELSE \E k \in PageCounts(size, aggSize - pos) :
                     LET page == SubSeq(Agg, pos + 1, pos + k)
                     IN  /\ buckets' = page
                         /\ IF k = 0
                            THEN /\ resp_after' = NoneDict
                                 /\ after_key' = NoneDict
                                 /\ bpc' = "done" /\ bidx' = 0
                            ELSE /\ resp_after' \in {page[k]} \cup (IF pos + k = aggSize THEN {NoneDict} ELSE {})
                                 /\ bpc' = "for" /\ bidx' = 1
                                 /\ UNCHANGED after_key
    /\ UNCHANGED <<limit, start_after_name, start_after_birth, processed, first_after, seen,
                   raisedItems, chain, inChain, chainLog>>
    /\ UNCHANGED <<envVars, storeVars, enrichVars, unpaced, lastBatch>>

\* the for loop without the test of lines 193, 194
ForBodyNoLimitTest ==
    /\ bpc = "for" /\ bidx <= Len(buckets)
    /\ LET key == buckets[bidx]
       IN  /\ CallEnrichOne(key.name, to_year(key.birth), "batch")
           /\ seen' = seen \cup {key}
           /\ chainLog' = IF inChain THEN Append(chainLog, key) ELSE chainLog
    /\ bpc' = "await"
    /\ UNCHANGED <<limit, start_after_name, start_after_birth, processed, after_key, body, buckets,
                   bidx, resp_after, first_after, raisedItems, chain, inChain>>
    /\ UNCHANGED <<envVars, storeVars, unpaced, lastBatch>>

\* lines 195 to 199: the next bucket is handed to enrich_one
ForBody ==
    /\ bpc = "for" /\ bidx <= Len(buckets) /\ processed < limit
    /\ LET key == buckets[bidx]
       IN  /\ CallEnrichOne(key.name, to_year(key.birth), "batch")
           /\ seen' = seen \cup {key}
           /\ chainLog' = IF inChain THEN Append(chainLog, key) ELSE chainLog
    /\ bpc' = "await"
    /\ UNCHANGED <<limit, start_after_name, start_after_birth, processed, after_key, body, buckets,
                   bidx, resp_after, first_after, raisedItems, chain, inChain>>
    /\ UNCHANGED <<envVars, storeVars, unpaced, lastBatch>>

\* the loop body without the try: an exception of enrich_one leaves enrich_batch
ItemDoneNoTry ==
    /\ bpc = "await" /\ caller = "batch" /\ epc \in {"returned", "raised"}
    /\ processed' = processed + (IF epc = "raised" THEN 0 ELSE 1)
    /\ raisedItems' = raisedItems + (IF epc = "raised" THEN 1 ELSE 0)
    /\ bidx' = bidx + 1
    /\ bpc' = IF epc = "raised" THEN "raised" ELSE "for"
    /\ EndEnrichOne
    /\ UNCHANGED <<limit, start_after_name, start_after_birth, after_key, body, buckets, resp_after,
                   first_after, seen, chain, inChain, chainLog>>
    /\ UNCHANGED <<envVars, storeVars, unpaced, lastBatch>>

\* lines 200 to 202: enrich_one returned or raised; processed += 1
ItemDone ==
    /\ bpc = "await" /\ caller = "batch" /\ epc \in {"returned", "raised"}
    /\ processed' = processed + 1
    /\ raisedItems' = raisedItems + (IF epc = "raised" THEN 1 ELSE 0)
    /\ bidx' = bidx + 1
    /\ bpc' = "for"
    /\ EndEnrichOne
    /\ UNCHANGED <<limit, start_after_name, start_after_birth, after_key, body, buckets, resp_after,
                   first_after, seen, chain, inChain, chainLog>>
    /\ UNCHANGED <<envVars, storeVars, unpaced, lastBatch>>

\* the cursor is dropped when the limit is reached
AfterForDropsKey ==
    /\ after_key' = IF processed < limit THEN resp_after ELSE NoneDict
    /\ bpc' = IF resp_after = NoneDict THEN "done"
              ELSE IF processed < limit THEN "search" ELSE "done"
    /\ UNCHANGED <<limit, start_after_name, start_after_birth, processed, body, buckets, bidx,
                   resp_after, first_after, seen, raisedItems, chain, inChain, chainLog>>
    /\ UNCHANGED <<envVars, storeVars, enrichVars, unpaced, lastBatch>>

\* lines 204 to 206 and the next test of the while condition
AfterFor ==
    /\ after_key' = resp_after
    /\ bpc' = IF resp_after = NoneDict THEN "done"
              ELSE IF processed < limit THEN "search" ELSE "done"
    /\ UNCHANGED <<limit, start_after_name, start_after_birth, processed, body, buckets, bidx,
                   resp_after, first_after, seen, raisedItems, chain, inChain, chainLog>>
    /\ UNCHANGED <<envVars, storeVars, enrichVars, unpaced, lastBatch>>

\* lines 193, 194: break
ForBreak ==
    /\ bpc = "for" /\ bidx <= Len(buckets) /\ processed >= limit
    /\ AfterFor

\* enrich_batch returns behind its first page
ForEndReturns ==
    /\ bpc = "for" /\ bidx > Len(buckets)
    /\ after_key' = resp_after
    /\ bpc' = "done"
    /\ UNCHANGED <<limit, start_after_name, start_after_birth, processed, body, buckets, bidx,
                   resp_after, first_after, seen, raisedItems, chain, inChain, chainLog>>
    /\ UNCHANGED <<envVars, storeVars, enrichVars, unpaced, lastBatch>>

\* the for loop has run through the page
ForEnd ==
    /\ bpc = "for" /\ bidx > Len(buckets)
    /\ AfterFor

\* line 208: return {"processed": processed, "next_after_key": after_key}
BatchReturn ==
    /\ bpc = "done"
    /\ lastBatch' = [valid |-> TRUE, limit |-> limit, processed |-> processed,
                     next_after_key |-> after_key, chain |-> chain,
                     inChain |-> inChain, chainLog |-> chainLog]
    /\ bpc' = "idle" /\ limit' = 0 /\ start_after_name' = None /\ start_after_birth' = None
    /\ processed' = 0 /\ after_key' = NoneDict /\ body' = NoBody /\ buckets' = <<>> /\ bidx' = 0
    /\ resp_after' = NoneDict /\ first_after' = NoneDict /\ seen' = {} /\ raisedItems' = 0
    /\ chain' = 0 /\ inChain' = FALSE /\ chainLog' = <<>>
    /\ UNCHANGED <<envVars, storeVars, enrichVars, unpaced>>

\* the exception of es.search leaves enrich_batch: the request fails
BatchRaise ==
    /\ bpc = "raised"
    /\ bpc' = "idle" /\ limit' = 0 /\ start_after_name' = None /\ start_after_birth' = None
    /\ processed' = 0 /\ after_key' = NoneDict /\ body' = NoBody /\ buckets' = <<>> /\ bidx' = 0
    /\ resp_after' = NoneDict /\ first_after' = NoneDict /\ seen' = {} /\ raisedItems' = 0
    /\ chain' = 0 /\ inChain' = FALSE /\ chainLog' = <<>>
    /\ UNCHANGED <<envVars, storeVars, enrichVars, unpaced, lastBatch>>

Next ==
    \/ \E n \in QueryNames, b \in QueryBirths : EnrichAuthor(n, b)
    \/ EnrichAuthorDone
    \/ \E o \in {"transient", "fatal"} : OlSearchFail(o)
    \/ \E ds \in DocLists : OlSearchOk(ds)
    \/ \E o \in {"transient", "fatal"} : OlGetFail(o)
    \/ \E d \in Details : OlGetOk(d)
    \/ IndexOk
    \/ IndexFail
    \/ PoliteSleep
    \/ \E l \in 1..MaxLimit, c \in Cursors : EnrichBatch(l, c[1], c[2])
    \/ WorksSearchFail
    \/ WorksSearchOk
    \/ ForBody
    \/ ItemDone
    \/ ForBreak
    \/ ForEnd
    \/ BatchReturn
    \/ BatchRaise

Spec == Init /\ [][Next]_vars

\* POST /enrich/batch alone, against an OpenLibrary that knows no author:
\* enrich_one returns no_match or raises.  Every await comes back: es.search
\* returns or raises (request_timeout=60) and an OpenLibrary call returns or
\* raises (timeout=20); which of the outcomes comes back is not constrained.
EnrichOneStep ==
    \/ \E o \in {"transient", "fatal"} : OlSearchFail(o)
    \/ OlSearchOk(<<>>)

NextBatch ==
    \/ EnrichOneStep
    \/ \E l \in 1..MaxLimit, c \in Cursors : EnrichBatch(l, c[1], c[2])
    \/ WorksSearchFail
    \/ WorksSearchOk
    \/ ForBody
    \/ ItemDone
    \/ ForBreak
    \/ ForEnd
    \/ BatchReturn
    \/ BatchRaise

BatchFairness ==
    /\ WF_vars(WorksSearchOk \/ WorksSearchFail)
    /\ WF_vars(EnrichOneStep)
    /\ WF_vars(ForBody)
    /\ WF_vars(ItemDone)
    /\ WF_vars(ForBreak)
    /\ WF_vars(ForEnd)

SpecBatchFair == Init /\ [][NextBatch]_vars /\ BatchFairness

\* POST /enrich/author alone, against every answer of OpenLibrary
InitEnrich == Init /\ aggSize = 0 /\ storeMode = "sized"

NextEnrich ==
    \/ \E n \in QueryNames, b \in QueryBirths : EnrichAuthor(n, b)
    \/ EnrichAuthorDone
    \/ \E o \in {"transient", "fatal"} : OlSearchFail(o)
    \/ \E ds \in AllDocLists : OlSearchOk(ds)
    \/ \E o \in {"transient", "fatal"} : OlGetFail(o)
    \/ \E d \in AllDetails : OlGetOk(d)
    \/ IndexOk
    \/ IndexFail
    \/ PoliteSleep

SpecEnrich == InitEnrich /\ [][NextEnrich]_vars

\* ------------------------------------------------------------ the scorer on its own
MaxCands == 3        \* longest candidate sequence handed to pick_best_author

PickCands ==
    { [name |-> <<"A", "n">>, key |-> <<"/", "a", "/", "1">>, birth_date |-> <<"1", "9", "2", "3">>,
       work_count |-> 5, top_subjects |-> None, alternate_names |-> None],
      [name |-> <<" ", "A", "N", " ">>, key |-> <<"/", "a", "/", "2">>, birth_date |-> None,
       work_count |-> 5, top_subjects |-> None, alternate_names |-> None],
      [name |-> <<"A", "n", "n">>, key |-> <<"/", "a", "/", "3">>, birth_date |-> <<"c", " ", "1", "9", "5", "0">>,
       work_count |-> 900, top_subjects |-> None, alternate_names |-> None],
      [name |-> None, key |-> <<"/", "a", "/", "4">>, birth_date |-> <<"u", "n", "k">>,
       work_count |-> NoneInt, top_subjects |-> None, alternate_names |-> None],
      [name |-> <<"A", "n", "n", "e">>, key |-> <<"/", "a", "/", "5">>, birth_date |-> None,
       work_count |-> 2000, top_subjects |-> None, alternate_names |-> None] }

SeqsUpTo(S, n) == UNION {[1..k -> S] : k \in 0..n}

PickNames  == {<<"a", "n">>, <<"A", "n", "n">>}
PickBirths == {NoneInt, 1923, 1700}

InitPick ==
    /\ Init
    /\ aggSize = 0 /\ storeMode = "sized"

ChoosePick ==
    /\ pin = NoPick /\ ~pout.done
    /\ pin' \in [docs : SeqsUpTo(PickCands, MaxCands), name : PickNames, birth : PickBirths]
    /\ UNCHANGED <<aggSize, storeMode, pout, yin, yout, din, dout>>
    /\ UNCHANGED <<storeVars, batchVars, enrichVars, unpaced, lastBatch>>

ApplyPick ==
    /\ pin # NoPick /\ ~pout.done
    /\ pout' = [done |-> TRUE, best |-> pick_best_author(pin.docs, pin.name, pin.birth)]
    /\ UNCHANGED <<aggSize, storeMode, pin, yin, yout, din, dout>>
    /\ UNCHANGED <<storeVars, batchVars, enrichVars, unpaced, lastBatch>>

NextPick == ChoosePick \/ ApplyPick

SpecPick == InitPick /\ [][NextPick]_vars

\* ------------------------------------------------------------ to_year on its own
MaxYearLen == 5      \* longest birth-date string built from YearChars

YearChars == {"1", "9", "c"}

\* birth_date values: None, "", every string over YearChars, and two dates
\* as OpenLibrary writes them
YearInputs ==
    SeqsUpTo(YearChars, MaxYearLen)
        \cup {None, <<"c", ".", " ", "1", "9", "2", "3">>, <<"u", "n", "k", "n", "o", "w", "n">>}

ChooseYear ==
    /\ ~yin.chosen
    /\ \E s \in YearInputs : yin' = [chosen |-> TRUE, s |-> s]
    /\ UNCHANGED <<aggSize, storeMode, pin, pout, yout, din, dout>>
    /\ UNCHANGED <<storeVars, batchVars, enrichVars, unpaced, lastBatch>>

ApplyYear ==
    /\ yin.chosen /\ ~yout.done
    /\ yout' = [done |-> TRUE, year |-> to_year(yin.s)]
    /\ UNCHANGED <<aggSize, storeMode, pin, pout, yin, din, dout>>
    /\ UNCHANGED <<storeVars, batchVars, enrichVars, unpaced, lastBatch>>

NextYear == ChooseYear \/ ApplyYear

SpecYear == InitPick /\ [][NextYear]_vars

\* ------------------------------------------------------------ extract_bio on its own
ChooseBio ==
    /\ ~din.chosen
    /\ \E b \in BioValues, d \in BioValues :
          din' = [chosen |-> TRUE, detail |-> [bio |-> b, description |-> d]]
    /\ UNCHANGED <<aggSize, storeMode, pin, pout, yin, yout, dout>>
    /\ UNCHANGED <<storeVars, batchVars, enrichVars, unpaced, lastBatch>>

ApplyBio ==
    /\ din.chosen /\ ~dout.done
    /\ dout' = [done |-> TRUE, bio |-> extract_bio(din.detail)]
    /\ UNCHANGED <<aggSize, storeMode, pin, pout, yin, yout, din>>
    /\ UNCHANGED <<storeVars, batchVars, enrichVars, unpaced, lastBatch>>

NextBio == ChooseBio \/ ApplyBio

SpecBio == InitPick /\ [][NextBio]_vars

\* ============================================================ properties

\* C1: batch resumption.  With N distinct pairs, a limit L with L < N < 2L and
\* a works index that returns at most the requested buckets, the batch that
\* starts without cursor ends with processed = L and a next_after_key, and the
\* batch resumed with that key and the same limit ends with processed = N - L
\* and next_after_key = None.
C1_BatchResumption ==
    (bpc = "done" /\ storeMode = "sized" /\ limit < aggSize /\ aggSize < 2 * limit) =>
        /\ chain = 1 => (processed = limit /\ after_key # NoneDict)
        /\ chain = 2 => (processed = aggSize - limit /\ after_key = NoneDict)

C1_Witness ==
    /\ bpc = "done" /\ storeMode = "sized" /\ chain = 2
    /\ limit < aggSize /\ aggSize < 2 * limit
    /\ processed = aggSize - limit /\ after_key = NoneDict

\* C2: per-item failure isolation.  When enrich_one raises for an item, the
\* batch counts the item in processed and goes on with the for loop; the
\* number of items a batch ends with does not depend on how many of them
\* raised.
C2_FailureIsolation ==
    /\ [][(bpc = "await" /\ epc = "raised") =>
            (bpc' = "for" /\ processed' = processed + 1 /\ bidx' = bidx + 1)]_vars
    /\ []((bpc = "done" /\ storeMode = "sized") =>
            (processed = Min(limit, aggSize - Pos(first_after)) /\ raisedItems <= processed))

C2_Witness ==
    /\ bpc = "done" /\ storeMode = "sized"
    /\ Len(buckets) = 3 /\ processed = 3 /\ raisedItems = 1

\* C3: enrich_batch never ends with an exception.
C3_BatchNeverRaises == bpc # "raised"

\* C4: when a batch that was served at most the requested buckets returns
\* next_after_key = None, every key behind the start cursor has been passed to
\* enrich_one; and when the loop ends with processed = limit and the last
\* response carried an after_key, that key is returned.
C4_CursorMeaning ==
    bpc = "done" =>
        /\ (after_key = NoneDict /\ storeMode = "sized") =>
              \A i \in 1..aggSize : i > Pos(first_after) => AllKeys[i] \in seen
        /\ (processed = limit /\ resp_after # NoneDict) => after_key = resp_after

C4_Witness ==
    /\ bpc = "done" /\ storeMode = "sized" /\ after_key = NoneDict
    /\ first_after # NoneDict /\ Cardinality(seen) >= 2 /\ processed < limit

\* C5: when the search returns no candidate, enrich_one returns
\* {status: "no_match", name: <input name>} in that step, without an error, a
\* fetch or an upsert, and the authors index is as it was.
C5_NoCandidate ==
    /\ [][(epc = "search" /\ nsearch' = nsearch + 1 /\ lastOutcome' = "ok" /\ docs' = <<>>) =>
            /\ epc' = "returned" /\ error' = "none"
            /\ result'.status = "no_match" /\ result'.name = name
            /\ authors' = authors]_vars
    /\ []((epc = "returned" /\ result.status = "no_match") => (nfetch = 0 /\ nindex = 0))

C5_Witness ==
    /\ epc = "returned" /\ docs = <<>> /\ result.status = "no_match" /\ result.name = name
    /\ nsearch = 2 /\ authors # {}

\* C6: the authors index holds exactly one document for each authority id that
\* was upserted, the payload of the latest upsert for that id, and none for
\* any other id.
C6_IdempotentUpsert ==
    /\ \A r \in authors : r.id \in Olids
    /\ \A i \in Olids :
          {r \in authors : r.id = i} =
              IF upsertCount[i] = 0 THEN {} ELSE {[id |-> i, doc |-> lastUpsert[i]]}
    /\ \A i \in Olids : upsertCount[i] > 0 => lastUpsert[i].author_id = i

C6_Witness ==
    /\ \E i \in Olids : upsertCount[i] = 2 /\ Cardinality({r \in authors : r.id = i}) = 1
    /\ Cardinality(authors) = 2

\* C7: a transient failure of the search or of the fetch is retried; each makes
\* at most 3 attempts; a successful attempt ends the operation; after a
\* transient failure the operation fails only when it was the third attempt.
C7_BoundedRetry ==
    /\ [](nsearch <= 3 /\ nfetch <= 3)
    /\ []((epc = "raised" /\ lastOutcome = "transient") =>
            ((nfetch = 0 /\ nsearch = 3) \/ nfetch = 3))
    /\ [][(epc = "search" /\ nsearch' = nsearch + 1 /\ lastOutcome' = "transient" /\ nsearch' < 3) =>
            (epc' = "search" /\ attempt' = attempt + 1)]_vars
    /\ [][(epc = "fetch" /\ nfetch' = nfetch + 1 /\ lastOutcome' = "transient" /\ nfetch' < 3) =>
            (epc' = "fetch" /\ attempt' = attempt + 1)]_vars
    /\ [][(epc = "search" /\ nsearch' = nsearch + 1 /\ lastOutcome' = "ok") =>
            epc' \in {"fetch", "returned"}]_vars
    /\ [][(epc = "fetch" /\ nfetch' = nfetch + 1 /\ lastOutcome' = "ok") => epc' = "index"]_vars

C7_Witness ==
    /\ epc = "raised" /\ error = "RetryError" /\ lastOutcome = "transient"
    /\ nsearch = 2 /\ nfetch = 3

\* C8: a failure of the search or of the fetch that is not transient surfaces
\* after exactly one attempt.
C8_NonTransientNoRetry ==
    lastOutcome = "fatal" => (epc = "raised" /\ attempt = 1)

\* C9: in a batch, the first OpenLibrary call for an author is issued only
\* when the polite delay has been slept since the last OpenLibrary call.
C9_PoliteDelay ==
    (caller = "batch" /\ epc = "search" /\ nsearch = 0) => ~unpaced

\* C10: pick_best_author returns None for no candidates, else the first
\* candidate of maximal score.
Score(i) == score_candidate(pin.docs[i], pin.name, pin.birth)

C10_PickBest ==
    pout.done =>
        IF pin.docs = <<>> THEN pout.best = NoneDict
        ELSE \E i \in 1..Len(pin.docs) :
                /\ pout.best = pin.docs[i]
                /\ \A j \in 1..Len(pin.docs) : Score(j) <= Score(i)
                /\ \A j \in 1..(i - 1) : Score(j) < Score(i)

C10_Witness ==
    /\ pout.done /\ Len(pin.docs) = 3
    /\ pout.best = pin.docs[2]
    /\ Score(3) = Score(2) /\ pin.docs[3] # pin.docs[2]

\* C11: exact match wins.  When some candidate's stripped, lower-cased name
\* equals the target's, pick_best_author returns an exact match (the one of
\* highest work count and birth proximity), whatever the work counts of the
\* candidates that do not match exactly.
C11_Exact(d) == Lower(Strip(OrStr(d.name, <<>>))) = Lower(Strip(OrStr(pin.name, <<>>)))

\* work count plus birth proximity of a candidate
C11_Rest(d) ==
    LET wc == IF d.work_count = NoneInt THEN 0 ELSE d.work_count
        by == to_year(d.birth_date)
    IN  IF pin.birth \notin {NoneInt, 0} /\ by \notin {NoneInt, 0}
        THEN wc + 100 - Abs(by - pin.birth)
        ELSE wc

C11_ExactMatchWins ==
    (pout.done /\ \E i \in 1..Len(pin.docs) : C11_Exact(pin.docs[i])) =>
        /\ C11_Exact(pout.best)
        /\ \A i \in 1..Len(pin.docs) :
              C11_Exact(pin.docs[i]) => C11_Rest(pin.docs[i]) <= C11_Rest(pout.best)

\* C11, amended: the exact match wins when its 1000 points outweigh the work
\* count and birth proximity of every candidate that does not match exactly;
\* a candidate that does not match exactly wins when its work count and birth
\* proximity exceed 1000 plus those of every exact match.
C11_ExactMatchWinsByScore ==
    pout.done =>
        /\ (\E i \in 1..Len(pin.docs) :
               /\ C11_Exact(pin.docs[i])
               /\ \A j \in 1..Len(pin.docs) :
                     ~C11_Exact(pin.docs[j]) => C11_Rest(pin.docs[j]) < 1000 + C11_Rest(pin.docs[i]))
            => /\ C11_Exact(pout.best)
               /\ \A i \in 1..Len(pin.docs) :
                     C11_Exact(pin.docs[i]) => C11_Rest(pin.docs[i]) <= C11_Rest(pout.best)
        /\ (\E j \in 1..Len(pin.docs) :
               /\ ~C11_Exact(pin.docs[j])
               /\ \A i \in 1..Len(pin.docs) :
                     C11_Exact(pin.docs[i]) => C11_Rest(pin.docs[j]) > 1000 + C11_Rest(pin.docs[i]))
            => ~C11_Exact(pout.best)

C11_Witness ==
    /\ pout.done /\ Len(pin.docs) = 2
    /\ C11_Exact(pin.docs[2]) /\ pin.docs[2].work_count = 5
    /\ ~C11_Exact(pin.docs[1]) /\ pin.docs[1].work_count = 900
    /\ pout.best = pin.docs[2]

\* C12: to_year returns the first run of exactly four consecutive digits of
\* the string as an integer (a run of five or more digits is not such a run),
\* and None when the string is None, empty or has no such run.
C12_RunOfFourAt(s, i) ==
    /\ FourDigitsAt(s, i)
    /\ (i = 1 \/ s[i - 1] \notin Digits)
    /\ (i + 4 > Len(s) \/ s[i + 4] \notin Digits)

C12_YearExtraction ==
    yout.done =>
        LET s == yin.s
        IN  IF s = None \/ s = <<>> \/ ~\E i \in 1..Len(s) : C12_RunOfFourAt(s, i)
            THEN yout.year = NoneInt
            ELSE \E i \in 1..Len(s) :
                    /\ C12_RunOfFourAt(s, i)
                    /\ \A j \in 1..(i - 1) : ~C12_RunOfFourAt(s, j)
                    /\ yout.year = 1000 * DigitVal(s[i]) + 100 * DigitVal(s[i + 1])
                                      + 10 * DigitVal(s[i + 2]) + DigitVal(s[i + 3])

\* C15: extract_bio takes detail.bio if present, else detail.description; a
\* string is returned as it is, a structured value with a string "value"
\* gives that string, anything else gives None.
C15_Usable(v) ==
    IF v.t = "str" THEN v.s
    ELSE IF v.t = "obj" /\ v.vt = "str" THEN v.s
    ELSE None

C15_ExtractBio ==
    dout.done =>
        LET v == IF din.detail.bio.t # "null" THEN din.detail.bio ELSE din.detail.description
        IN  dout.bio = C15_Usable(v)

\* C15, amended: extract_bio takes detail.bio if it is present and not empty
\* (not null, not "", not an empty structured value), else
\* detail.description; when the value taken is absent or empty the result is
\* None; otherwise a string is returned as it is, a structured value with a
\* string "value" gives that string, anything else gives None.
C15_Empty(v) ==
    \/ v.t = "null"
    \/ v.t = "str" /\ Len(v.s) = 0
    \/ v.t = "obj" /\ v.vt = "empty"

C15_ExtractBioNonEmpty ==
    dout.done =>
        LET v == IF ~C15_Empty(din.detail.bio) THEN din.detail.bio ELSE din.detail.description
        IN  /\ dout.bio = IF C15_Empty(v) THEN None ELSE C15_Usable(v)
            /\ (din.detail = [bio |-> JStr(<<"h", "i">>), description |-> JNull]
                    => dout.bio = <<"h", "i">>)
            /\ (din.detail = [bio |-> JNull, description |-> JObj("str", <<"h", "i">>)]
                    => dout.bio = <<"h", "i">>)
            /\ (din.detail = [bio |-> JNull, description |-> JNull] => dout.bio = None)

C15_Witness ==
    /\ dout.done
    /\ din.detail.bio = JStr(<<>>) /\ din.detail.description = JStr(<<"y", "o">>)
    /\ dout.bio = <<"y", "o">>

\* C13: every document handed to the authors index carries a non-empty
\* bio_text: what extract_bio gave when that is a non-empty string, and the
\* fallback built from the query name otherwise.
C13_BioText ==
    /\ \A r \in authors : r.doc.bio_text # None /\ Len(r.doc.bio_text) > 0
    /\ (epc \in {"index", "sleep"} \/ (epc = "returned" /\ result.status = "ok")) =>
          /\ doc.bio_text # None /\ Len(doc.bio_text) > 0
          /\ doc.bio_text = IF extracted = None \/ extracted = <<>>
                             THEN name \o <<".", " ", "A", "u", "t", "h", "o", "r", ".">>
                             ELSE extracted

C13_Witness ==
    /\ epc = "sleep" /\ extracted = <<>>
    /\ [id |-> olid, doc |-> doc] \in authors
    /\ doc.bio_text = name \o <<".", " ", "A", "u", "t", "h", "o", "r", ".">>

\* C14: the upsert into the authors index is under the retry policy of the
\* OpenLibrary calls: when enrich_one ends with the exception of the upsert,
\* the upsert has been attempted three times.
C14_UpsertRetried ==
    (epc = "raised" /\ error = "index") => nindex = StopAfterAttempt

\* C18: enrich_one writes to the authors index last.  The upsert is called
\* only when the search has succeeded, pick_best_author has returned a
\* candidate and the fetch has succeeded; a call that ends with the failure
\* of the search or of the fetch has made no upsert and has left the index
\* as it was; a call that returns status ok has made exactly one upsert, under
\* the id it returns.
C18_UpsertLast ==
    /\ [][(authors' # authors \/ nindex' > nindex) =>
            /\ epc = "index" /\ nindex' = nindex + 1
            /\ nsearch >= 1 /\ docs # <<>> /\ best # NoneDict /\ best = pick_best_author(docs, name, birth_year)
            /\ nfetch >= 1 /\ lastOutcome = "ok"]_vars
    /\ []((epc = "raised" /\ error # "index") => (nindex = 0 /\ epc # "index"))
    /\ []((epc = "returned" /\ result.status = "no_match") => nindex = 0)
    /\ []((epc = "returned" /\ result.status = "ok") =>
            /\ nindex = 1
            /\ result.olid = olid /\ doc.author_id = olid
            /\ [id |-> result.olid, doc |-> doc] \in authors
            /\ \A r \in authors : r.id = result.olid => r.doc = doc)

C18_Witness ==
    /\ epc = "returned" /\ result.status = "ok"
    /\ nsearch = 3 /\ nfetch = 2 /\ nindex = 1
    /\ [id |-> result.olid, doc |-> doc] \in authors

\* C17: enrich_batch terminates.  Whatever the works index answers (also
\* when it never sends an empty page and always sends an after_key), a batch
\* whose enrich_one calls return or raise leaves its loop; and when it
\* returns, the latest page was empty, the latest response had no
\* after_key, or processed has reached limit.
C17_Terminates ==
    /\ (bpc \in {"search", "for", "await"}) ~> (bpc \in {"done", "raised"})
    /\ [](bpc = "done" => (buckets = <<>> \/ resp_after = NoneDict \/ processed = limit))

C17_Witness ==
    /\ bpc = "done" /\ storeMode = "endless"
    /\ first_after = NoneDict /\ body.after # NoneDict
    /\ processed = limit /\ limit = MaxLimit /\ raisedItems >= 1

\* C16: a batch never goes beyond limit.  While enrich_batch runs,
\* 0 <= processed <= limit and the enrich_one calls made so far are at most
\* limit; every page is requested with size min(1000, limit - processed),
\* which is at least 1; and once processed = limit no further bucket of the
\* page is handed to enrich_one, also when the page holds more buckets than
\* were requested.
C16_LimitRespected ==
    /\ [](bpc # "idle" =>
            /\ 0 <= processed /\ processed <= limit
            /\ processed + (IF bpc = "await" THEN 1 ELSE 0) <= limit)
    /\ []((bpc \in {"for", "await"} /\ bidx <= Len(buckets) + 1) =>
            /\ body.size >= 1
            /\ body.size = Min(MaxPageSize, limit - (processed - (bidx - 1))))
    /\ [][(bpc = "for" /\ processed = limit) => (bpc' = "done" /\ epc' = "idle")]_vars

C16_Witness ==
    /\ bpc = "for" /\ storeMode = "over"
    /\ processed = limit /\ bidx <= Len(buckets)
    /\ Len(buckets) > body.size

\* C20: the start cursor counts only when both of its components are given.
\* With start_after_name or start_after_birth alone enrich_batch starts from
\* the beginning, as it does without a cursor: its first es.search carries
\* no "after" and the first page starts with the first key.  With both, the
\* first es.search carries them as its "after".
C20_Partial == (start_after_name = None) # (start_after_birth = None)

C20_StartCursor ==
    bpc # "idle" =>
        LET given == IF start_after_name # None /\ start_after_birth # None
                     THEN [name |-> start_after_name, birth |-> start_after_birth]
                     ELSE NoneDict
        IN  /\ first_after = given
            /\ (bpc = "search" /\ processed = 0) => after_key = given
            /\ (bpc \in {"for", "await", "done", "raised"} /\ processed = 0 /\ bidx <= 1)
                    => body.after = given
            /\ (C20_Partial /\ bpc = "for" /\ processed = 0 /\ bidx = 1)
                    => buckets[1] = AllKeys[1]

C20_Witness ==
    /\ bpc = "for" /\ processed = 0 /\ bidx = 1
    /\ start_after_name # None /\ start_after_birth = None
    /\ body.after = NoneDict /\ buckets[1] = AllKeys[1]

\* C19: chained batches cover every author exactly once.  Over a works
\* index that answers with at most the requested buckets, a batch started
\* without cursor and the batches that follow it, each started (with any
\* limit) from the next_after_key the one before returned, hand the keys of
\* the aggregation to enrich_one in ascending order, none skipped and none
\* twice; when one of them returns next_after_key = None every key has been
\* handed over exactly once.
C19_ChainedCoverage ==
    inChain =>
        /\ storeMode = "sized"
        /\ Len(chainLog) <= aggSize
        /\ \A i \in 1..Len(chainLog) : chainLog[i] = Agg[i]
        /\ (bpc = "done" /\ after_key = NoneDict) => chainLog = Agg

C19_Witness ==
    /\ bpc = "done" /\ inChain /\ after_key = NoneDict
    /\ aggSize = MaxAuthors /\ chainLog = Agg
    /\ first_after = AllKeys[2] /\ processed = aggSize - 2 /\ limit = 1

====
